---------------------------- MODULE Spec2Model ----------------------------
(***************************************************************************)
(* Keccak-p[1600] in XLArig's panthera directory: the AVX2 engine          *)
(* (KeccakP-1600-avx2.c), the AVX-512 engine (KeccakP-1600-avx512.c) and   *)
(* the run-time dispatcher (KeccakP-1600-optimized.c).                     *)
(*                                                                         *)
(* A 64-bit lane is the set of its set bit positions, a subset of 0..63    *)
(* (bit 0 is the least significant): the bitwise operators of C become set *)
(* operators and keep the full width of uint64_t.  A vector register is a  *)
(* function from its element index (0 = lowest 64 bits) to a lane.         *)
(***************************************************************************)
EXTENDS Integers, Sequences, FiniteSets, TLC

(***************************************************************************)
(* uint64_t                                                                *)
(***************************************************************************)
LaneBits == 64

BitPos == 0..(LaneBits - 1)

Zero64 == {}

Ones64 == BitPos

XOR(a, b) == (a \ b) \cup (b \ a)

AND(a, b) == a \cap b

OR(a, b) == a \cup b

NOT(a) == BitPos \ a

\* x << n on uint64_t: the bits shifted past bit 63 are lost
SHL(x, n) == {b + n : b \in {k \in x : k + n < LaneBits}}

\* x >> n on uint64_t, for 0 <= n < 64
SHR(x, n) == {b - n : b \in {k \in x : k >= n}}

\* the lane whose value is the 16-bit number w shifted left by sh bits
Word16(w, sh) == {b + sh : b \in {k \in 0..15 : (w \div (2 ^ k)) % 2 = 1}}

\* the lane written 0x<w3><w2><w1><w0>ULL in the source, four hex digits each
Lane64(w3, w2, w1, w0) ==
    Word16(w3, 48) \cup Word16(w2, 32) \cup Word16(w1, 16) \cup Word16(w0, 0)

(***************************************************************************)
(* Constant tables (the same in both vector engines)                       *)
(***************************************************************************)
KeccakF1600RoundConstants ==
    << Lane64(\H0000, \H0000, \H0000, \H0001), Lane64(\H0000, \H0000, \H0000, \H8082),
       Lane64(\H8000, \H0000, \H0000, \H808a), Lane64(\H8000, \H0000, \H8000, \H8000),
       Lane64(\H0000, \H0000, \H0000, \H808b), Lane64(\H0000, \H0000, \H8000, \H0001),
       Lane64(\H8000, \H0000, \H8000, \H8081), Lane64(\H8000, \H0000, \H0000, \H8009),
       Lane64(\H0000, \H0000, \H0000, \H008a), Lane64(\H0000, \H0000, \H0000, \H0088),
       Lane64(\H0000, \H0000, \H8000, \H8009), Lane64(\H0000, \H0000, \H8000, \H000a),
       Lane64(\H0000, \H0000, \H8000, \H808b), Lane64(\H8000, \H0000, \H0000, \H008b),
       Lane64(\H8000, \H0000, \H0000, \H8089), Lane64(\H8000, \H0000, \H0000, \H8003),
       Lane64(\H8000, \H0000, \H0000, \H8002), Lane64(\H8000, \H0000, \H0000, \H0080),
       Lane64(\H0000, \H0000, \H0000, \H800a), Lane64(\H8000, \H0000, \H8000, \H000a),
       Lane64(\H8000, \H0000, \H8000, \H8081), Lane64(\H8000, \H0000, \H0000, \H8080),
       Lane64(\H0000, \H0000, \H8000, \H0001), Lane64(\H8000, \H0000, \H8000, \H8008) >>

\* KeccakF1600RoundConstants[i] of the source (0-based)
RC(i) == KeccakF1600RoundConstants[i + 1]

rhotates_tab ==
    << 0, 1, 62, 28, 27, 36, 44, 6, 55, 20, 3, 10, 43, 25, 39, 41, 45, 15, 21, 8,
       18, 2, 61, 56, 14 >>

\* rhotates[i] of the source (0-based)
rhotates(i) == rhotates_tab[i + 1]

pi_lane_map_tab ==
    << 0, 10, 20, 5, 15, 16, 1, 11, 21, 6, 7, 17, 2, 12, 22, 23, 8, 18, 3, 13,
       14, 24, 9, 19, 4 >>

\* pi_lane_map[i] of the source (0-based)
pi_lane_map(i) == pi_lane_map_tab[i + 1]


(***************************************************************************)
(* The caller's buffer and the scratch arrays                              *)
(***************************************************************************)
\* lanes that lie behind the 200-byte state in the modelled memory
GuardLanes == 3

Lanes == 0..24

MemIdx == 0..(24 + GuardLanes)

\* uint64_t c[5], d[5]: an array of five lanes, built element by element
Arr5(a0, a1, a2, a3, a4) == (0 :> a0) @@ (1 :> a1) @@ (2 :> a2) @@ (3 :> a3) @@ (4 :> a4)

\* a[i] = v on an array in memory
Store(a, i, v) == [a EXCEPT ![i] = v]

(***************************************************************************)
(* rotl64 (line 110 of the AVX2 file, line 102 of the AVX-512 file)        *)
(***************************************************************************)
\* the amounts with a case of their own, each with the right shift written there
rotl64_cases ==
    (1 :> 63) @@ (2 :> 62) @@ (3 :> 61) @@ (6 :> 58) @@ (8 :> 56) @@ (10 :> 54) @@
    (14 :> 50) @@ (15 :> 49) @@ (18 :> 46) @@ (20 :> 44) @@ (21 :> 43) @@ (25 :> 39) @@
    (27 :> 37) @@ (28 :> 36) @@ (36 :> 28) @@ (39 :> 25) @@ (41 :> 23) @@ (43 :> 21) @@
    (44 :> 20) @@ (45 :> 19) @@ (55 :> 9) @@ (56 :> 8) @@ (61 :> 3) @@ (62 :> 2) @@
    (63 :> 1)

\* a left shift by n in place of the rotation
rotl64_shift_only(x, n) == SHL(x, n % 64)

rotl64(x, n) ==
    IF n = 0 THEN x
    ELSE IF n \in DOMAIN rotl64_cases THEN OR(SHL(x, n), SHR(x, rotl64_cases[n]))
    ELSE LET normalized_n == n % 64
         IN  OR(SHL(x, normalized_n), SHR(x, 64 - normalized_n))

(***************************************************************************)
(* AVX2 intrinsics: a __m256i is a function from 0..3 to lanes             *)
(***************************************************************************)
mm256_set_epi64x(e3, e2, e1, e0) == (0 :> e0) @@ (1 :> e1) @@ (2 :> e2) @@ (3 :> e3)

mm256_set1_epi64x(a) == (0 :> a) @@ (1 :> a) @@ (2 :> a) @@ (3 :> a)

mm256_xor_si256(a, b) ==
    (0 :> XOR(a[0], b[0])) @@ (1 :> XOR(a[1], b[1])) @@
    (2 :> XOR(a[2], b[2])) @@ (3 :> XOR(a[3], b[3]))

\* element k of the result is element ((imm >> 2k) & 3) of v
mm256_permute4x64_epi64(v, imm) ==
    (0 :> v[imm % 4]) @@ (1 :> v[(imm \div 4) % 4]) @@
    (2 :> v[(imm \div 16) % 4]) @@ (3 :> v[(imm \div 64) % 4])

mm256_extract_epi64(v, i) == v[i]

mm256_loadu_si256(mem, base) ==
    (0 :> mem[base]) @@ (1 :> mem[base + 1]) @@ (2 :> mem[base + 2]) @@ (3 :> mem[base + 3])

mm256_storeu_si256(mem, base, v) ==
    [mem EXCEPT ![base] = v[0], ![base + 1] = v[1], ![base + 2] = v[2], ![base + 3] = v[3]]

\* memcpy(dst + to, src + from, n * sizeof(uint64_t))
RECURSIVE memcpy_lanes(_, _, _, _, _)
memcpy_lanes(dst, to, src, from, n) ==
    IF n > 0 /\ to \in DOMAIN dst
    THEN memcpy_lanes(Store(dst, to, src[from]), to + 1, src, from + 1, n - 1)
    ELSE dst

(***************************************************************************)
(* AVX2 engine                                                             *)
(***************************************************************************)
\* get_epi64(a, idx): stores a to the static extract_buffer and reads one
\* element back.  No function of the file calls it.
get_epi64(xbuf, a, idx) ==
    [extract_buffer |-> [i \in 0..3 |-> a[i]], value |-> a[idx]]

mm256_horizontal_xor_epi64(v) ==
    LET v1 == mm256_xor_si256(v, mm256_permute4x64_epi64(v, \H4E))
        v2 == mm256_xor_si256(v1, mm256_permute4x64_epi64(v1, \HB1))
    IN  mm256_extract_epi64(v2, 0)

\* d[x] = c[x4] ^ rotl64(c[x1], 1)
D_CALC(c, x1, x4) == XOR(c[x4], rotl64(c[x1], 1))

theta_d(c) ==
    Arr5(D_CALC(c, 1, 4), D_CALC(c, 2, 0), D_CALC(c, 3, 1), D_CALC(c, 4, 2),
         D_CALC(c, 0, 3))

\* column x as theta_step_avx2 assembles it: rows 1..4, each XORed with row 0
avx2_col(state, x) ==
    mm256_xor_si256(
        mm256_set_epi64x(state[20 + x], state[15 + x], state[10 + x], state[5 + x]),
        mm256_set1_epi64x(state[x]))

theta_c_avx2(state) ==
    Arr5(mm256_horizontal_xor_epi64(avx2_col(state, 0)),
         mm256_horizontal_xor_epi64(avx2_col(state, 1)),
         mm256_horizontal_xor_epi64(avx2_col(state, 2)),
         mm256_horizontal_xor_epi64(avx2_col(state, 3)),
         mm256_horizontal_xor_epi64(avx2_col(state, 4)))

\* the values c and d hold when theta_step_avx2 returns
theta_step_avx2(state) ==
    LET c == theta_c_avx2(state) IN [c |-> c, d |-> theta_d(c)]

\* THETA_TAIL(i, col) / APPLY_D(i, col), in the order of the source: <<i, col>>
THETA_TAIL ==
    << <<16, 1>>, <<17, 2>>, <<18, 3>>, <<19, 4>>, <<20, 0>>, <<21, 1>>, <<22, 2>>,
       <<23, 3>>, <<24, 4>> >>

RECURSIVE ApplyThetaTail(_, _, _)
\* state[i] ^= d[col] for the entries k.. of THETA_TAIL
ApplyThetaTail(state, d, k) ==
    IF k <= Len(THETA_TAIL) /\ THETA_TAIL[k][1] \in DOMAIN state
    THEN ApplyThetaTail(
            Store(state, THETA_TAIL[k][1], XOR(state[THETA_TAIL[k][1]], d[THETA_TAIL[k][2]])),
            d, k + 1)
    ELSE state

\* lines 218-248: the state and temp after the D-values are applied
ThetaApply_avx2(state, temp, d) ==
    LET lanes0 == mm256_xor_si256(mm256_loadu_si256(state, 0),
                                  mm256_set_epi64x(d[3], d[2], d[1], d[0]))
        lanes1 == mm256_xor_si256(mm256_loadu_si256(state, 4),
                                  mm256_set_epi64x(d[2], d[1], d[0], d[4]))
        lanes2 == mm256_xor_si256(mm256_loadu_si256(state, 8),
                                  mm256_set_epi64x(d[1], d[0], d[4], d[3]))
        lanes3 == mm256_xor_si256(mm256_loadu_si256(state, 12),
                                  mm256_set_epi64x(d[0], d[4], d[3], d[2]))
        state1 == ApplyThetaTail(state, d, 1)
        temp1  == mm256_storeu_si256(temp, 0, lanes0)
        temp2  == mm256_storeu_si256(temp1, 4, lanes1)
        temp3  == mm256_storeu_si256(temp2, 8, lanes2)
        temp4  == mm256_storeu_si256(temp3, 12, lanes3)
    IN  [state |-> state1, temp |-> memcpy_lanes(temp4, 16, state1, 16, 9)]

\* the sequence with the rotations of source lanes 1 and 2 exchanged
RHO_PI_STEPS_exchanged ==
    << <<5, 1, 62>>,   <<10, 2, 1>>,   <<15, 3, 28>>,  <<20, 4, 27>>,
       <<1, 5, 36>>,   <<6, 6, 44>>,   <<11, 7, 6>>,   <<16, 8, 55>>,  <<21, 9, 20>>,
       <<2, 10, 3>>,   <<7, 11, 10>>,  <<12, 12, 43>>, <<17, 13, 25>>, <<22, 14, 39>>,
       <<3, 15, 41>>,  <<8, 16, 45>>,  <<13, 17, 15>>, <<18, 18, 21>>, <<23, 19, 8>>,
       <<4, 20, 18>>,  <<9, 21, 2>>,   <<14, 22, 61>>, <<19, 23, 56>>, <<24, 24, 14>> >>

\* RHO_PI_STEP(idx, src, rot) / RHO_PI(dest, src, rot), in the order of the
\* source: <<destination, source, rotation>>
RHO_PI_STEPS ==
    << <<5, 1, 1>>,    <<10, 2, 62>>,  <<15, 3, 28>>,  <<20, 4, 27>>,
       <<1, 5, 36>>,   <<6, 6, 44>>,   <<11, 7, 6>>,   <<16, 8, 55>>,  <<21, 9, 20>>,
       <<2, 10, 3>>,   <<7, 11, 10>>,  <<12, 12, 43>>, <<17, 13, 25>>, <<22, 14, 39>>,
       <<3, 15, 41>>,  <<8, 16, 45>>,  <<13, 17, 15>>, <<18, 18, 21>>, <<23, 19, 8>>,
       <<4, 20, 18>>,  <<9, 21, 2>>,   <<14, 22, 61>>, <<19, 23, 56>>, <<24, 24, 14>> >>

RECURSIVE ApplyRhoPi(_, _, _)
\* state[idx] = rotl64(temp[src], rot) for the entries k.. of RHO_PI_STEPS
ApplyRhoPi(state, temp, k) ==
    IF k <= Len(RHO_PI_STEPS) /\ RHO_PI_STEPS[k][1] \in DOMAIN state
    THEN ApplyRhoPi(
            Store(state, RHO_PI_STEPS[k][1], rotl64(temp[RHO_PI_STEPS[k][2]], RHO_PI_STEPS[k][3])),
            temp, k + 1)
    ELSE state

\* state[0] = temp[0]; then the unrolled sequence
RhoPi_vec(state, temp) == ApplyRhoPi(Store(state, 0, temp[0]), temp, 1)

chi_process_row(state, row_base) ==
    LET a0 == state[row_base + 0]
        a1 == state[row_base + 1]
        a2 == state[row_base + 2]
        a3 == state[row_base + 3]
        a4 == state[row_base + 4]
    IN  [state EXCEPT ![row_base + 0] = XOR(a0, AND(NOT(a1), a2)),
                      ![row_base + 1] = XOR(a1, AND(NOT(a2), a3)),
                      ![row_base + 2] = XOR(a2, AND(NOT(a3), a4)),
                      ![row_base + 3] = XOR(a3, AND(NOT(a4), a0)),
                      ![row_base + 4] = XOR(a4, AND(NOT(a0), a1))]

\* the row bases in the order of the calls in the round function
ChiRows == <<0, 5, 10, 15, 20>>

Chi_avx2(state) ==
    chi_process_row(chi_process_row(chi_process_row(chi_process_row(
        chi_process_row(state, 0), 5), 10), 15), 20)

\* state[0] ^= rc
Iota(state, rc) == Store(state, 0, XOR(state[0], rc))

(***************************************************************************)
(* AVX-512 intrinsics: a __m512i is a function from 0..7 to lanes, a       *)
(* __m256i from 0..3, a __m128i from 0..1; an __mmask8 is a number         *)
(***************************************************************************)
mm512_set_epi64(e7, e6, e5, e4, e3, e2, e1, e0) ==
    (0 :> e0) @@ (1 :> e1) @@ (2 :> e2) @@ (3 :> e3) @@
    (4 :> e4) @@ (5 :> e5) @@ (6 :> e6) @@ (7 :> e7)

mm512_set1_epi64(a) == mm512_set_epi64(a, a, a, a, a, a, a, a)

\* the lane holding the small non-negative integer n (an index operand)
IntLane(n) == Word16(n, 0)

\* the low three bits of a lane, as a number
Low3(l) == (IF 0 \in l THEN 1 ELSE 0) + (IF 1 \in l THEN 2 ELSE 0) + (IF 2 \in l THEN 4 ELSE 0)

\* element k of the result is element (idx[k] & 7) of a
mm512_permutexvar_epi64(idx, a) ==
    mm512_set_epi64(a[Low3(idx[7])], a[Low3(idx[6])], a[Low3(idx[5])], a[Low3(idx[4])],
                    a[Low3(idx[3])], a[Low3(idx[2])], a[Low3(idx[1])], a[Low3(idx[0])])

mm512_xor_si512(a, b) ==
    mm512_set_epi64(XOR(a[7], b[7]), XOR(a[6], b[6]), XOR(a[5], b[5]), XOR(a[4], b[4]),
                    XOR(a[3], b[3]), XOR(a[2], b[2]), XOR(a[1], b[1]), XOR(a[0], b[0]))

mm512_and_si512(a, b) ==
    mm512_set_epi64(AND(a[7], b[7]), AND(a[6], b[6]), AND(a[5], b[5]), AND(a[4], b[4]),
                    AND(a[3], b[3]), AND(a[2], b[2]), AND(a[1], b[1]), AND(a[0], b[0]))

\* bit i of the mask k
MaskBit(k, i) == (k \div (2 ^ i)) % 2 = 1

\* element i is a[i] ^ b[i] where bit i of k is set, src[i] elsewhere
MaskXor(src, k, a, b, i) == IF MaskBit(k, i) THEN XOR(a[i], b[i]) ELSE src[i]

mm512_mask_xor_epi64(src, k, a, b) ==
    mm512_set_epi64(MaskXor(src, k, a, b, 7), MaskXor(src, k, a, b, 6),
                    MaskXor(src, k, a, b, 5), MaskXor(src, k, a, b, 4),
                    MaskXor(src, k, a, b, 3), MaskXor(src, k, a, b, 2),
                    MaskXor(src, k, a, b, 1), MaskXor(src, k, a, b, 0))

\* the memory indices _mm512_mask_storeu_epi64(mem + base, k, ...) writes
MaskStoreLanes(base, k) == {base + i : i \in {j \in 0..7 : MaskBit(k, j)}}

RECURSIVE StoreLanes(_, _, _, _)
\* mem[i] = a[i - base] for every index i of the set idx
StoreLanes(mem, base, a, idx) ==
    IF idx \cap DOMAIN mem = {} THEN mem
    ELSE LET i == CHOOSE j \in idx \cap DOMAIN mem : TRUE
         IN  StoreLanes(Store(mem, i, a[i - base]), base, a, idx \ {i})

mm512_mask_storeu_epi64(mem, base, k, a) == StoreLanes(mem, base, a, MaskStoreLanes(base, k))

mm512_loadu_si512(mem, base) ==
    mm512_set_epi64(mem[base + 7], mem[base + 6], mem[base + 5], mem[base + 4],
                    mem[base + 3], mem[base + 2], mem[base + 1], mem[base])

mm512_storeu_si512(mem, base, v) == StoreLanes(mem, base, v, base..(base + 7))

mm512_extracti64x4_epi64(v, imm) ==
    (0 :> v[4 * imm]) @@ (1 :> v[4 * imm + 1]) @@ (2 :> v[4 * imm + 2]) @@ (3 :> v[4 * imm + 3])

mm256_extracti128_si256(v, imm) == (0 :> v[2 * imm]) @@ (1 :> v[2 * imm + 1])

mm_xor_si128(a, b) == (0 :> XOR(a[0], b[0])) @@ (1 :> XOR(a[1], b[1]))

mm_extract_epi64(v, i) == v[i]

(***************************************************************************)
(* AVX-512 engine                                                          *)
(***************************************************************************)
\* extract_epi64(vec, pos): stores vec to the static extract_buffer and reads
\* one element back.  No function of the file calls it.
extract_epi64(xbuf, vec, pos) ==
    [extract_buffer |-> [i \in 0..7 |-> vec[i]], value |-> vec[pos]]

mm512_horizontal_xor_epi64(v) ==
    LET low256  == mm512_extracti64x4_epi64(v, 0)
        high256 == mm512_extracti64x4_epi64(v, 1)
        reduced == mm256_xor_si256(low256, high256)
        low128  == mm256_extracti128_si256(reduced, 0)
        high128 == mm256_extracti128_si256(reduced, 1)
        result  == mm_xor_si128(low128, high128)
    IN  XOR(mm_extract_epi64(result, 0), mm_extract_epi64(result, 1))

\* column x as theta_step_avx512 assembles it
avx512_col(state, x) ==
    mm512_set_epi64(Zero64, Zero64, Zero64, state[20 + x], state[15 + x], state[10 + x],
                    state[5 + x], state[x])

theta_c_avx512(state) ==
    Arr5(mm512_horizontal_xor_epi64(avx512_col(state, 0)),
         mm512_horizontal_xor_epi64(avx512_col(state, 1)),
         mm512_horizontal_xor_epi64(avx512_col(state, 2)),
         mm512_horizontal_xor_epi64(avx512_col(state, 3)),
         mm512_horizontal_xor_epi64(avx512_col(state, 4)))

\* the values c and d hold when theta_step_avx512 returns
theta_step_avx512(state) ==
    LET c == theta_c_avx512(state) IN [c |-> c, d |-> theta_d(c)]

\* lines 211-241: the state and temp after the D-values are applied
ThetaApply_avx512(state, temp, d) ==
    LET s0 == mm512_xor_si512(mm512_loadu_si512(state, 0),
                 mm512_set_epi64(d[3], d[2], d[1], d[0], d[4], d[3], d[2], d[1]))
        s1 == mm512_xor_si512(mm512_loadu_si512(state, 8),
                 mm512_set_epi64(d[2], d[1], d[0], d[4], d[3], d[2], d[1], d[0]))
        state1 == ApplyThetaTail(state, d, 1)
        temp1  == mm512_storeu_si512(temp, 0, s0)
        temp2  == mm512_storeu_si512(temp1, 8, s1)
    IN  [state |-> state1, temp |-> memcpy_lanes(temp2, 16, state1, 16, 9)]

\* a mask that selects all eight elements
full_mask_all == \HFF

\* __mmask8 full_mask = 0x1F
full_mask == \H1F

chi_process_row_avx512(state, row_base) ==
    LET row == mm512_set_epi64(Zero64, Zero64, Zero64, state[row_base + 4],
                               state[row_base + 3], state[row_base + 2],
                               state[row_base + 1], state[row_base])
        row_shifted1 == mm512_permutexvar_epi64(
            mm512_set_epi64(IntLane(0), IntLane(0), IntLane(0), IntLane(0),
                            IntLane(3), IntLane(2), IntLane(1), IntLane(5)), row)
        row_shifted2 == mm512_permutexvar_epi64(
            mm512_set_epi64(IntLane(0), IntLane(0), IntLane(0), IntLane(0),
                            IntLane(4), IntLane(3), IntLane(2), IntLane(1)), row)
        not_row    == mm512_xor_si512(row_shifted1, mm512_set1_epi64(Ones64))
        chi_result == mm512_and_si512(not_row, row_shifted2)
        row1       == mm512_mask_xor_epi64(row, full_mask, row, chi_result)
    IN  mm512_mask_storeu_epi64(state, row_base, full_mask, row1)

Chi_avx512(state) ==
    chi_process_row_avx512(chi_process_row_avx512(chi_process_row_avx512(
        chi_process_row_avx512(chi_process_row_avx512(state, 0), 5), 10), 15), 20)

(***************************************************************************)
(* Reference engine (KeccakP-1600-reference.c): the five steps as the      *)
(* specification defines them, over lane index y*5+x                        *)
(***************************************************************************)
\* rotate-left of a 64-bit lane by n bits
ROTL(a, n) == {(b + n) % LaneBits : b \in a}

\* C[x]: the XOR of the five lanes of column x
ColumnParity(state, x) ==
    XOR(state[x], XOR(state[x + 5], XOR(state[x + 10], XOR(state[x + 15], state[x + 20]))))

\* D[x] = C[x-1 mod 5] XOR rotate-left(C[x+1 mod 5], 1)
ThetaD(c, x) == XOR(c[(x + 4) % 5], ROTL(c[(x + 1) % 5], 1))

theta_step_reference(state) ==
    LET c == Arr5(ColumnParity(state, 0), ColumnParity(state, 1), ColumnParity(state, 2),
                  ColumnParity(state, 3), ColumnParity(state, 4))
    IN  [c |-> c, d |-> Arr5(ThetaD(c, 0), ThetaD(c, 1), ThetaD(c, 2), ThetaD(c, 3), ThetaD(c, 4))]

ThetaApply_reference(state, temp, d) ==
    [state |-> [i \in DOMAIN state |-> IF i \in Lanes THEN XOR(state[i], d[i % 5]) ELSE state[i]],
     temp  |-> temp]

\* rho: every lane rotated by its offset; pi: lane i moves to pi_lane_map[i]
RhoPi_reference(state, temp) ==
    LET rho == [i \in Lanes |-> ROTL(state[i], rhotates(i))]
    IN  [j \in DOMAIN state |->
            IF j \in Lanes THEN rho[CHOOSE i \in Lanes : pi_lane_map(i) = j] ELSE state[j]]

\* the chi value of lane i from the lanes of its row
ChiLane(state, i) ==
    LET r == 5 * (i \div 5)
    IN  XOR(state[i], AND(NOT(state[r + ((i + 1) % 5)]), state[r + ((i + 2) % 5)]))

Chi_reference(state) ==
    [i \in DOMAIN state |-> IF i \in Lanes THEN ChiLane(state, i) ELSE state[i]]

(***************************************************************************)
(* One round and the permutations, per engine                              *)
(***************************************************************************)
Engines == {"avx2", "avx512", "reference"}

EntryPoints == {"24rounds", "12rounds"}

theta_step(e, state) ==
    CASE e = "avx2"      -> theta_step_avx2(state)
      [] e = "avx512"    -> theta_step_avx512(state)
      [] e = "reference" -> theta_step_reference(state)

ThetaApply(e, state, temp, d) ==
    CASE e = "avx2"      -> ThetaApply_avx2(state, temp, d)
      [] e = "avx512"    -> ThetaApply_avx512(state, temp, d)
      [] e = "reference" -> ThetaApply_reference(state, temp, d)

RhoPi(e, state, temp) ==
    CASE e = "avx2"      -> RhoPi_vec(state, temp)
      [] e = "avx512"    -> RhoPi_vec(state, temp)
      [] e = "reference" -> RhoPi_reference(state, temp)

Chi(e, state) ==
    CASE e = "avx2"      -> Chi_avx2(state)
      [] e = "avx512"    -> Chi_avx512(state)
      [] e = "reference" -> Chi_reference(state)

\* uint64_t temp[25]: the scratch array of a round
TempInit == [i \in Lanes |-> Zero64]

\* KeccakP1600_Round_avx2 / KeccakP1600_Round_avx512 / one reference round
KeccakP1600_Round(e, state, rc) ==
    LET th == theta_step(e, state)
        ap == ThetaApply(e, state, TempInit, th.d)
    IN  Iota(Chi(e, RhoPi(e, ap.state, ap.temp)), rc)

\* the round-constant indices of the KECCAK_ROUND lines, in their order
Rounds24 == <<0, 1, 2, 3, 4, 5, 6, 7, 8, 9, 10, 11, 12, 13, 14, 15, 16, 17, 18, 19, 20, 21, 22, 23>>

\* the 12-round list without the offset of 12
Rounds12_avx2_first == [i \in 1..12 |-> i - 1]

\* AVX2: KECCAK_ROUND(i) is ...RoundConstants[i+12], for i = 0, ..., 11
Rounds12_avx2 == [i \in 1..12 |-> (i - 1) + 12]

\* AVX-512: KECCAK_ROUND(12), ..., KECCAK_ROUND(23)
Rounds12_avx512 == <<12, 13, 14, 15, 16, 17, 18, 19, 20, 21, 22, 23>>

\* the reference engine applies the last 12 rounds of the schedule
Rounds12_reference == <<12, 13, 14, 15, 16, 17, 18, 19, 20, 21, 22, 23>>

RoundList(e, f) ==
    CASE f = "24rounds" -> Rounds24
      [] f = "12rounds" /\ e = "avx2"      -> Rounds12_avx2
      [] f = "12rounds" /\ e = "avx512"    -> Rounds12_avx512
      [] f = "12rounds" /\ e = "reference" -> Rounds12_reference

RECURSIVE ApplyRounds(_, _, _, _)
\* the rounds list[k], list[k+1], ... applied to a buffer that holds the 25 lanes
ApplyRounds(e, state, list, k) ==
    IF k <= Len(list) /\ Lanes \subseteq DOMAIN state
    THEN ApplyRounds(e, KeccakP1600_Round(e, state, RC(list[k])), list, k + 1)
    ELSE state

\* KeccakP1600_Permute_24rounds_<e> / KeccakP1600_Permute_12rounds_<e>
Permute(e, f, state) == ApplyRounds(e, state, RoundList(e, f), 1)

(***************************************************************************)
(* Caller-side inputs                                                      *)
(***************************************************************************)
\* single-bit lane values use the bit positions 0..MaxBit
MaxBit == 0

LaneVals == {{b} : b \in 0..MaxBit}

\* the value the lanes behind the state hold, so that a stray store shows
Canary == Ones64

ZeroState == [i \in MemIdx |-> IF i \in Lanes THEN Zero64 ELSE Canary]

OnesState == [i \in MemIdx |-> Ones64]

\* the all-zero state, the all-ones state and the states with one non-zero lane
Inputs ==
    {ZeroState, OnesState} \cup {[ZeroState EXCEPT ![i] = v] : i \in Lanes, v \in LaneVals}

\* the 25 lanes of a buffer
StateOf(m) == [i \in Lanes |-> m[i]]

\* the calls the caller makes on one input, in order: the engine, its entry
\* point, and whether the buffer holds the input or the state the engine's
\* 24-round call had after its first 12 rounds
Runs ==
    << [e |-> "reference", f |-> "24rounds", src |-> "input"],
       [e |-> "reference", f |-> "12rounds", src |-> "mid"],
       [e |-> "reference", f |-> "12rounds", src |-> "input"],
       [e |-> "avx2",      f |-> "24rounds", src |-> "input"],
       [e |-> "avx2",      f |-> "12rounds", src |-> "mid"],
       [e |-> "avx2",      f |-> "12rounds", src |-> "input"],
       [e |-> "avx512",    f |-> "24rounds", src |-> "input"],
       [e |-> "avx512",    f |-> "12rounds", src |-> "mid"],
       [e |-> "avx512",    f |-> "12rounds", src |-> "input"] >>

(***************************************************************************)
(* State                                                                   *)
(***************************************************************************)
VARIABLES
    input,          \* the state the caller permutes with every engine
    run,            \* index into Runs of the current or next call
    outs,           \* the results of the calls that returned, by index into Runs
    mid,            \* per engine: the state of its 24-round call after 12 rounds
    eng,            \* the engine being run
    fn,             \* its entry point: "24rounds" or "12rounds"
    pc,             \* position in the round function
    k,              \* index into the entry point's list of rounds
    rcs,            \* the round-constant indices the call has used, in order
    mem,            \* the caller's state buffer and the lanes behind it
    temp, c, d,     \* the scratch arrays of the round function
    stores,         \* the stores of the call into mem: <<step, base, index>>
    extract_buffer, \* the static work buffers of the two vector files
    permute_fn,     \* the dispatcher's binding: NULL or an engine
    supports,       \* what supportsAVX2() and supportsAVX512() return
    build,          \* how the build emits the stores of init_permute_function
    tpc,            \* per thread: position in the wrapper or in init
    reg,            \* per thread: the value of permute_fn it last loaded or stored
    buf,            \* per thread: the state buffer passed to the entry point
    ncalls,         \* per thread: calls of the entry point made so far
    invoked,        \* the engines the entry point has forwarded to
    results,        \* the <<input, output>> pairs of the calls that returned
    engineOut,      \* the engines' 24-round results on the threads' inputs
    rot_x, rot_n,   \* the arguments of the last call of rotl64
    rot_out         \* what it returned, <<>> before the first call

engineVars ==
    <<input, run, outs, mid, eng, fn, pc, k, rcs, mem, temp, c, d, stores, extract_buffer>>

dispatchVars ==
    <<permute_fn, supports, build, tpc, reg, buf, ncalls, invoked, results, engineOut>>

rotlVars == <<rot_x, rot_n, rot_out>>

vars == <<engineVars, dispatchVars, rotlVars>>

Zero5 == Arr5(Zero64, Zero64, Zero64, Zero64, Zero64)

ExtractBufferInit ==
    [avx2 |-> [i \in 0..3 |-> Zero64], avx512 |-> [i \in 0..7 |-> Zero64]]

\* threads that call the entry point
NumThreads == 2

Threads == 1..NumThreads

\* calls of the entry point the threads make in all
MaxCalls == 2

NULL == "NULL"

\* no engine call in progress, on the buffer m
EngineIdle(m) ==
    /\ input = m /\ mem = m
    /\ run = 1 /\ outs = <<>>
    /\ mid = [e \in Engines |-> StateOf(m)]
    /\ eng = "none" /\ fn = "none" /\ pc = "idle" /\ k = 0 /\ rcs = <<>>
    /\ temp = TempInit /\ c = Zero5 /\ d = Zero5
    /\ stores = {}
    /\ extract_buffer = ExtractBufferInit

\* rotl64 not called on its own
RotlIdle ==
    /\ rot_x = Zero64 /\ rot_n = 0 /\ rot_out = <<>>

\* static void (*permute_fn)(void *) = NULL, no thread inside the wrapper
DispatchIdle ==
    /\ permute_fn = NULL
    /\ tpc = [t \in Threads |-> "idle"]
    /\ reg = [t \in Threads |-> NULL]
    /\ buf = [t \in Threads |-> ZeroState]
    /\ ncalls = [t \in Threads |-> 0]
    /\ invoked = {}
    /\ results = {}
    /\ engineOut = <<>>

(***************************************************************************)
(* State machine of the engine calls                                       *)
(***************************************************************************)
InitEngine ==
    /\ \E m \in Inputs : EngineIdle(m)
    /\ supports = [avx2 |-> TRUE, avx512 |-> TRUE]
    /\ build = "as_written"
    /\ DispatchIdle
    /\ RotlIdle

\* the buffer the caller passes to call number r
CallBuffer(r) ==
    IF Runs[r].src = "input" THEN input
    ELSE [i \in MemIdx |-> IF i \in Lanes THEN mid[Runs[r].e][i] ELSE Canary]

\* the caller enters KeccakP1600_Permute_<f>_<e>(mem)
Call ==
    /\ pc = "idle"
    /\ run <= Len(Runs)
    /\ mem' = CallBuffer(run)
    /\ eng' = Runs[run].e /\ fn' = Runs[run].f
    /\ k' = 1 /\ rcs' = <<>> /\ pc' = "theta"
    /\ stores' = {}
    /\ UNCHANGED <<input, run, outs, mid, temp, c, d, extract_buffer, dispatchVars, rotlVars>>

\* theta_step_<e>(state, c, d)
ThetaStep ==
    /\ pc = "theta"
    /\ LET th == theta_step(eng, mem) IN c' = th.c /\ d' = th.d
    /\ pc' = "apply"
    /\ UNCHANGED <<input, run, outs, mid, eng, fn, k, rcs, mem, temp, stores, extract_buffer,
                   dispatchVars, rotlVars>>

\* the stores into the state a step of engine e makes: <<step, base, index>>
ThetaApplyStores(e) ==
    IF e = "reference" THEN {<<"apply", i, i>> : i \in Lanes}
    ELSE {<<"apply", THETA_TAIL[j][1], THETA_TAIL[j][1]>> : j \in DOMAIN THETA_TAIL}

RhoPiStores(e) ==
    IF e = "reference" THEN {<<"rhopi", i, i>> : i \in Lanes}
    ELSE {<<"rhopi", 0, 0>>}
         \cup {<<"rhopi", RHO_PI_STEPS[j][1], RHO_PI_STEPS[j][1]>> : j \in DOMAIN RHO_PI_STEPS}

\* chi: the scalar stores of chi_process_row, the masked store of chi_process_row_avx512
ChiStores(e) ==
    CASE e = "avx2"      -> {<<"chi", ChiRows[j], ChiRows[j] + x>> : j \in DOMAIN ChiRows, x \in 0..4}
      [] e = "avx512"    -> UNION {{<<"chi", ChiRows[j], i>> : i \in MaskStoreLanes(ChiRows[j], full_mask)} :
                                     j \in DOMAIN ChiRows}
      [] e = "reference" -> {<<"chi", 5 * (i \div 5), i>> : i \in Lanes}

\* the D-values applied: the vector part into temp, the tail in place
ThetaApplyStep ==
    /\ pc = "apply"
    /\ LET ap == ThetaApply(eng, mem, temp, d) IN mem' = ap.state /\ temp' = ap.temp
    /\ stores' = stores \cup ThetaApplyStores(eng)
    /\ pc' = "rhopi"
    /\ UNCHANGED <<input, run, outs, mid, eng, fn, k, rcs, c, d, extract_buffer, dispatchVars, rotlVars>>

\* the unrolled rho+pi sequence
RhoPiStep ==
    /\ pc = "rhopi"
    /\ mem' = RhoPi(eng, mem, temp)
    /\ stores' = stores \cup RhoPiStores(eng)
    /\ pc' = "chi"
    /\ UNCHANGED <<input, run, outs, mid, eng, fn, k, rcs, temp, c, d, extract_buffer,
                   dispatchVars, rotlVars>>

\* the five chi row calls
ChiStep ==
    /\ pc = "chi"
    /\ mem' = Chi(eng, mem)
    /\ stores' = stores \cup ChiStores(eng)
    /\ pc' = "iota"
    /\ UNCHANGED <<input, run, outs, mid, eng, fn, k, rcs, temp, c, d, extract_buffer,
                   dispatchVars, rotlVars>>

\* state[0] ^= rc, and on to the next KECCAK_ROUND line or the return
IotaStep ==
    /\ pc = "iota"
    /\ mem' = Iota(mem, RC(RoundList(eng, fn)[k]))
    /\ stores' = stores \cup {<<"iota", 0, 0>>}
    /\ rcs' = Append(rcs, RoundList(eng, fn)[k])
    /\ k' = k + 1
    /\ pc' = IF k = Len(RoundList(eng, fn)) THEN "done" ELSE "theta"
    /\ mid' = IF fn = "24rounds" /\ k = 12 THEN [mid EXCEPT ![eng] = StateOf(mem')] ELSE mid
    /\ UNCHANGED <<input, run, outs, eng, fn, temp, c, d, extract_buffer, dispatchVars, rotlVars>>

\* the call returns; the caller keeps the result
Return ==
    /\ pc = "done"
    /\ outs' = Append(outs, StateOf(mem))
    /\ run' = run + 1
    /\ pc' = "idle"
    /\ UNCHANGED <<input, mid, eng, fn, k, rcs, mem, temp, c, d, stores, extract_buffer,
                   dispatchVars, rotlVars>>

NextEngine ==
    \/ Call
    \/ ThetaStep
    \/ ThetaApplyStep
    \/ RhoPiStep
    \/ ChiStep
    \/ IotaStep
    \/ Return

SpecEngine == InitEngine /\ [][NextEngine]_vars

(***************************************************************************)
(* The dispatcher (KeccakP-1600-optimized.c)                               *)
(*                                                                         *)
(* permute_fn is a plain static pointer that the threads load and store    *)
(* without synchronisation.  Each load and each store of it is one step.   *)
(* What the language leaves open is a choice of the model: the build       *)
(* either emits the stores of init_permute_function as written or keeps    *)
(* the selection in a register and stores the final value once, and the    *)
(* indirect call either reloads permute_fn or reuses the value the thread  *)
(* last loaded or stored.                                                  *)
(***************************************************************************)
\* the states the threads pass to the entry point
DispatchInputs == {ZeroState, [ZeroState EXCEPT ![0] = {0}]}

Builds == {"as_written", "coalesced"}

Init ==
    /\ supports \in [avx2 : BOOLEAN, avx512 : BOOLEAN]
    /\ build \in Builds
    /\ DispatchIdle
    /\ EngineIdle(ZeroState)
    /\ RotlIdle

\* The engines read and write the caller's buffer only, so a call is one
\* step and its result a function of the engine and the buffer: the results
\* on the threads' inputs are worked out once, before the first call.
Tabulate ==
    /\ engineOut = <<>>
    /\ engineOut' = [e \in Engines |-> [s \in DispatchInputs |-> Permute(e, "24rounds", s)]]
    /\ UNCHANGED <<permute_fn, supports, build, tpc, reg, buf, ncalls, invoked, results,
                   engineVars, rotlVars>>

RECURSIVE SumTo(_, _)
SumTo(f, n) == IF n = 0 THEN 0 ELSE f[n] + SumTo(f, n - 1)

\* the calls of the entry point made so far
CallsMade == SumTo(ncalls, NumThreads)

\* a thread calls KeccakP1600_Permute_24rounds(state)
Enter(t, s) ==
    /\ engineOut # <<>>
    /\ tpc[t] = "idle"
    /\ CallsMade < MaxCalls
    /\ buf' = [buf EXCEPT ![t] = s]
    /\ ncalls' = [ncalls EXCEPT ![t] = @ + 1]
    /\ tpc' = [tpc EXCEPT ![t] = "w55"]
    /\ UNCHANGED <<permute_fn, supports, build, reg, invoked, results, engineOut, engineVars, rotlVars>>

\* the wrapper going on to the indirect call without the NULL check
WrapperCheck_no_init(t) ==
    /\ tpc[t] = "w55"
    /\ reg' = [reg EXCEPT ![t] = permute_fn]
    /\ tpc' = [tpc EXCEPT ![t] = "w59"]
    /\ UNCHANGED <<permute_fn, supports, build, buf, ncalls, invoked, results, engineOut,
                   engineVars, rotlVars>>

\* the wrapper calling init_permute_function on every call
WrapperCheck_always_init(t) ==
    /\ tpc[t] = "w55"
    /\ reg' = [reg EXCEPT ![t] = permute_fn]
    /\ tpc' = [tpc EXCEPT ![t] = "i30"]
    /\ UNCHANGED <<permute_fn, supports, build, buf, ncalls, invoked, results, engineOut,
                   engineVars, rotlVars>>

\* line 55: if (permute_fn == NULL) init_permute_function();
WrapperCheck(t) ==
    /\ tpc[t] = "w55"
    /\ reg' = [reg EXCEPT ![t] = permute_fn]
    /\ tpc' = [tpc EXCEPT ![t] = IF permute_fn = NULL THEN "i30" ELSE "w59"]
    /\ UNCHANGED <<permute_fn, supports, build, buf, ncalls, invoked, results, engineOut,
                   engineVars, rotlVars>>

\* line 30: if (permute_fn != NULL) return;
InitCheck(t) ==
    /\ tpc[t] = "i30"
    /\ reg' = [reg EXCEPT ![t] = permute_fn]
    /\ tpc' = [tpc EXCEPT ![t] = IF permute_fn # NULL THEN "w59" ELSE "i35"]
    /\ UNCHANGED <<permute_fn, supports, build, buf, ncalls, invoked, results, engineOut,
                   engineVars, rotlVars>>

\* thread t stores v to permute_fn and goes on at position next
StoreBinding(t, v, next) ==
    /\ permute_fn' = v
    /\ reg' = [reg EXCEPT ![t] = v]
    /\ tpc' = [tpc EXCEPT ![t] = next]
    /\ UNCHANGED <<supports, build, buf, ncalls, invoked, results, engineOut, engineVars, rotlVars>>

\* thread t goes on at position next without a store
SkipStore(t, next) ==
    /\ tpc' = [tpc EXCEPT ![t] = next]
    /\ UNCHANGED <<permute_fn, supports, build, reg, buf, ncalls, invoked, results, engineOut,
                   engineVars, rotlVars>>

\* line 35: permute_fn = &KeccakP1600_Permute_24rounds_reference;
InitStoreReference(t) ==
    /\ tpc[t] = "i35"
    /\ build = "as_written"
    /\ StoreBinding(t, "reference", "i39")

\* lines 39-41: if (supportsAVX2()) permute_fn = &KeccakP1600_Permute_24rounds_avx2;
InitProbeAVX2(t) ==
    /\ tpc[t] = "i39"
    /\ IF supports.avx2 THEN StoreBinding(t, "avx2", "i46") ELSE SkipStore(t, "i46")

\* the AVX-512 engine bound without asking the probe
InitProbeAVX512_unchecked(t) ==
    /\ tpc[t] = "i46"
    /\ StoreBinding(t, "avx512", "w59")

\* lines 46-48: if (supportsAVX512()) permute_fn = &KeccakP1600_Permute_24rounds_avx512;
InitProbeAVX512(t) ==
    /\ tpc[t] = "i46"
    /\ IF supports.avx512 THEN StoreBinding(t, "avx512", "w59") ELSE SkipStore(t, "w59")

\* the value lines 35-48 leave in permute_fn when no other thread stores
SelectedEngine ==
    LET v35 == "reference"
        v40 == IF supports.avx2 THEN "avx2" ELSE v35
        v47 == IF supports.avx512 THEN "avx512" ELSE v40
    IN  v47

\* lines 35-48 in a build that keeps the selection in a register: one store
InitStoreCoalesced(t) ==
    /\ tpc[t] = "i35"
    /\ build = "coalesced"
    /\ StoreBinding(t, SelectedEngine, "w59")

\* line 59: permute_fn(state); the engine works on the caller's buffer only
Forward(t, f) ==
    /\ tpc[t] = "w59"
    /\ f \in {permute_fn, reg[t]}
    /\ IF f = NULL
       THEN /\ tpc' = [tpc EXCEPT ![t] = "crashed"]
            /\ UNCHANGED <<buf, invoked, results>>
       ELSE /\ buf' = [buf EXCEPT ![t] = engineOut[f][buf[t]]]
            /\ invoked' = invoked \cup {f}
            /\ results' = results \cup {<<buf[t], engineOut[f][buf[t]]>>}
            /\ tpc' = [tpc EXCEPT ![t] = "idle"]
    /\ reg' = [reg EXCEPT ![t] = NULL]
    /\ UNCHANGED <<permute_fn, supports, build, ncalls, engineOut, engineVars, rotlVars>>

Next ==
    \/ Tabulate
    \/ \E t \in Threads, s \in DispatchInputs : Enter(t, s)
    \/ \E t \in Threads : WrapperCheck(t)
    \/ \E t \in Threads : InitCheck(t)
    \/ \E t \in Threads : InitStoreReference(t)
    \/ \E t \in Threads : InitProbeAVX2(t)
    \/ \E t \in Threads : InitProbeAVX512(t)
    \/ \E t \in Threads : InitStoreCoalesced(t)
    \/ \E t \in Threads, f \in Engines \cup {NULL} : Forward(t, f)

Spec == Init /\ [][Next]_vars

\* Known answers: lane 0 of the all-zero state after 24 rounds.  The value of
\* the reference engine is the published Keccak-p[1600,24] test vector.
KnownAnswer ==
    pc = "done" /\ fn = "24rounds" /\ input = ZeroState =>
        /\ eng = "reference" => mem[0] = Lane64(\HF125, \H8F79, \H40E1, \HDDE7)
        /\ eng = "avx2"      => mem[0] = Lane64(\H25b1, \H55a5, \H3a81, \H65cf)
        /\ eng = "avx512"    => mem[0] = Lane64(\Haaba, \H66c4, \Hc32f, \H0336)

(***************************************************************************)
(* rotl64 called on its own, with any amount in 0..63                      *)
(***************************************************************************)
\* lane values have their set bits among the MaxRotBits lowest and the
\* MaxRotBits highest positions
MaxRotBits == 2

RotInputs == SUBSET ((0..(MaxRotBits - 1)) \cup ((LaneBits - MaxRotBits)..(LaneBits - 1)))

RotAmounts == 0..(LaneBits - 1)

InitRotl ==
    /\ EngineIdle(ZeroState)
    /\ supports = [avx2 |-> TRUE, avx512 |-> TRUE]
    /\ build = "as_written"
    /\ DispatchIdle
    /\ rot_x \in RotInputs /\ rot_n = 0 /\ rot_out = <<>>

\* rotl64(x, n) with an amount that has a case of its own
RotlCase(n) ==
    /\ (n = 0 \/ n \in DOMAIN rotl64_cases)
    /\ rot_n' = n
    /\ rot_out' = <<rotl64(rot_x, n)>>
    /\ UNCHANGED <<rot_x, engineVars, dispatchVars>>

\* rotl64(x, n) with an amount left to the default path
RotlDefault(n) ==
    /\ ~(n = 0 \/ n \in DOMAIN rotl64_cases)
    /\ rot_n' = n
    /\ rot_out' = <<rotl64(rot_x, n)>>
    /\ UNCHANGED <<rot_x, engineVars, dispatchVars>>

NextRotl ==
    \/ \E n \in RotAmounts : RotlCase(n)
    \/ \E n \in RotAmounts : RotlDefault(n)

SpecRotl == InitRotl /\ [][NextRotl]_vars

(***************************************************************************)
(* Properties of the engines (checked under SpecEngine)                    *)
(***************************************************************************)
VectorEngines == {"avx2", "avx512"}

\* C1: for every input state and for each round count (24 and 12), the AVX2
\* engine, the AVX-512 engine and the reference engine produce bit-identical
\* output states.
C1_EnginesAgree ==
    \A i \in DOMAIN outs, j \in DOMAIN outs :
        (Runs[i].src = "input" /\ Runs[j].src = "input" /\ Runs[i].f = Runs[j].f)
            => outs[i] = outs[j]

\* C6: a call of either vector engine stores only to lanes 0..24 of the
\* caller's buffer (the lanes behind the state keep their value), the chi
\* stores of a row are exactly the 5 lanes of that row, and no mutable
\* global (extract_buffer) is written.
C6_StoresInsideState ==
    eng \in VectorEngines =>
        /\ \A s \in stores : s[3] \in Lanes
        /\ \A i \in MemIdx \ Lanes : mem[i] = Canary
        /\ \A j \in DOMAIN ChiRows :
              LET row == {s[3] : s \in {u \in stores : u[1] = "chi" /\ u[2] = ChiRows[j]}}
              IN  row = {} \/ row = ChiRows[j]..(ChiRows[j] + 4)
        /\ extract_buffer = ExtractBufferInit

\* the AVX-512 engine has run chi (its masked stores) on all five rows
C6_Witness ==
    /\ eng = "avx512" /\ pc = "iota"
    /\ {s[3] : s \in {u \in stores : u[1] = "chi"}} = Lanes
    /\ mem # input

\* C7: in both vector engines the 24-round function uses the round constants
\* 0, 1, ..., 23 in that order and the 12-round function the constants
\* 12, ..., 23 in that order, and the 24-round result equals the 12-round
\* function applied to the state after rounds 0..11.
C7_RoundSchedule ==
    /\ (pc = "done" /\ eng \in VectorEngines) =>
          rcs = IF fn = "24rounds" THEN [i \in 1..24 |-> i - 1] ELSE [i \in 1..12 |-> i + 11]
    /\ \A q \in DOMAIN outs, r \in DOMAIN outs :
          (/\ Runs[q].e \in VectorEngines /\ Runs[r].e = Runs[q].e
           /\ Runs[q].f = "24rounds" /\ Runs[r].src = "mid")
              => outs[r] = outs[q]

\* both vector engines have returned from the 12-round call on the state
\* their 24-round call had after 12 rounds
C7_Witness ==
    \A e \in VectorEngines :
        \E q \in DOMAIN outs, r \in DOMAIN outs :
            /\ Runs[q].e = e /\ Runs[q].f = "24rounds"
            /\ Runs[r].e = e /\ Runs[r].src = "mid"
            /\ outs[q] # StateOf(input)

\* C8: in each vector engine's theta step, for every column x, the computed
\* parity c[x] is the XOR of the five lanes of that column:
\* state[x] ^ state[x+5] ^ state[x+10] ^ state[x+15] ^ state[x+20].
C8_ColumnParity ==
    (pc = "apply" /\ eng \in VectorEngines) =>
        \A x \in 0..4 :
            c[x] = XOR(mem[x], XOR(mem[x + 5], XOR(mem[x + 10], XOR(mem[x + 15], mem[x + 20]))))

\* C9: in each vector engine, after the D-values are applied, temp holds for
\* every lane i in 0..24 the original lane i XORed with d[i mod 5], where
\* d[x] = c[(x+4) mod 5] XOR rotate-left(c[(x+1) mod 5], 1).
C9_ThetaApply ==
    [][(pc = "apply" /\ eng \in VectorEngines) =>
          \A i \in Lanes :
              temp'[i] = XOR(mem[i], XOR(c[((i % 5) + 4) % 5], ROTL(c[((i % 5) + 1) % 5], 1)))]_vars

\* C10: in each vector engine the unrolled rho+pi sequence leaves in lane
\* pi_lane_map[i] the value rotate-left(temp[i], rhotates[i]), for every
\* source lane i in 0..24, and writes every destination lane exactly once.
C10_RhoPi ==
    (pc = "chi" /\ eng \in VectorEngines) =>
        /\ \A i \in Lanes : mem[pi_lane_map(i)] = ROTL(temp[i], rhotates(i))
        /\ \A l \in Lanes :
              Cardinality({j \in DOMAIN RHO_PI_STEPS : RHO_PI_STEPS[j][1] = l})
                  + (IF l = 0 THEN 1 ELSE 0) = 1

\* C11: in each vector engine the chi row function replaces, for every row
\* base r in {0,5,10,15,20} and every x in 0..4, lane r+x with
\* lane(r+x) XOR ((NOT lane(r+((x+1) mod 5))) AND lane(r+((x+2) mod 5))),
\* the operands being the row's values before the step.
C11_ChiRow ==
    [][(pc = "chi" /\ eng \in VectorEngines) =>
          \A j \in DOMAIN ChiRows : \A x \in 0..4 :
              LET r == ChiRows[j]
              IN  mem'[r + x] =
                      XOR(mem[r + x],
                          AND(NOT(mem[r + ((x + 1) % 5)]), mem[r + ((x + 2) % 5)]))]_vars

\* C12: in each vector engine, chi applied to a row whose five lanes are
\* all-ones leaves all five lanes of that row unchanged.
C12_ChiAllOnes ==
    [][(pc = "chi" /\ eng \in VectorEngines) =>
          \A j \in DOMAIN ChiRows :
              (\A x \in 0..4 : mem[ChiRows[j] + x] = Ones64)
                  => (\A x \in 0..4 : mem'[ChiRows[j] + x] = Ones64)]_vars

\* C13: in each vector engine's unrolled rho+pi sequence every source lane i
\* in 0..24 is rotated left by exactly rhotates[i], lane 0 is copied with
\* rotation 0, and no source lane is rotated by another lane's offset: each
\* source lane occurs once, with its own offset, and the lane the sequence
\* stores it to holds that rotation of temp[i].
C13_RhoOffsets ==
    /\ rhotates(0) = 0
    /\ \A i \in 1..24 :
          \E j \in DOMAIN RHO_PI_STEPS :
              /\ RHO_PI_STEPS[j][2] = i /\ RHO_PI_STEPS[j][3] = rhotates(i)
              /\ \A j2 \in DOMAIN RHO_PI_STEPS : RHO_PI_STEPS[j2][2] = i => j2 = j
    /\ (pc = "chi" /\ eng \in VectorEngines) =>
          /\ mem[0] = temp[0]
          /\ \A j \in DOMAIN RHO_PI_STEPS :
                mem[RHO_PI_STEPS[j][1]] =
                    ROTL(temp[RHO_PI_STEPS[j][2]], rhotates(RHO_PI_STEPS[j][2]))

\* the AVX-512 engine has run rho+pi on lanes that every nonzero offset changes
C13_Witness ==
    /\ eng = "avx512" /\ pc = "chi"
    /\ \A i \in 1..24 : ROTL(temp[i], rhotates(i)) # temp[i]
    /\ mem[5] = ROTL(temp[1], 1)

(***************************************************************************)
(* Properties of the dispatcher (checked under Spec)                       *)
(***************************************************************************)
\* C2: once permute_fn is non-NULL, no step of any thread changes it to a
\* different engine.
C2_BindingNeverChanges ==
    [][permute_fn # NULL => permute_fn' = permute_fn]_vars

\* no thread is inside the wrapper or inside init_permute_function
Quiet == \A t \in Threads : tpc[t] = "idle"

\* C3: every call of the entry point forwards to the same engine, the one
\* the binding finally holds.
C3_OneEngine ==
    /\ Cardinality(invoked) <= 1
    /\ Quiet => invoked \subseteq {permute_fn}

\* C4: after the first call made by a single thread has returned, the
\* binding is the AVX-512 engine if supportsAVX512() is true, otherwise the
\* AVX2 engine if supportsAVX2() is true, otherwise the reference engine.
C4_FirstCallResolves ==
    \A t \in Threads :
        (/\ tpc[t] = "idle" /\ ncalls[t] >= 1
         /\ \A u \in Threads \ {t} : ncalls[u] = 0)
            => permute_fn = IF supports.avx512 THEN "avx512"
                            ELSE IF supports.avx2 THEN "avx2"
                            ELSE "reference"

\* the first call of a lone thread has returned where only AVX2 is supported
C4_Witness ==
    \E t \in Threads :
        /\ tpc[t] = "idle" /\ ncalls[t] = 1
        /\ \A u \in Threads \ {t} : ncalls[u] = 0
        /\ supports.avx2 /\ ~supports.avx512
        /\ permute_fn = "avx2"

\* C5: two calls of the entry point on equal input states yield equal output
\* states.
C5_EqualInputsEqualOutputs ==
    \A r1 \in results, r2 \in results : r1[1] = r2[1] => r1[2] = r2[2]

\* C14: in every interleaving of threads calling the entry point, the value
\* of permute_fn read at the indirect call permute_fn(state) is never NULL
\* (whether the call uses the value the thread last loaded or stored, or
\* loads permute_fn again), and no step writes NULL back to a bound
\* permute_fn.
C14_CallNeverNull ==
    /\ [](\A t \in Threads :
            /\ tpc[t] # "crashed"
            /\ tpc[t] = "w59" => (permute_fn # NULL /\ reg[t] # NULL))
    /\ [][permute_fn # NULL => permute_fn' # NULL]_vars

\* a thread is at the indirect call with the value it loaded while another
\* thread has since bound another engine and made its call
C14_Witness ==
    \E t \in Threads, u \in Threads :
        /\ t # u
        /\ tpc[t] = "w59" /\ reg[t] # NULL /\ reg[t] # permute_fn
        /\ tpc[u] = "idle" /\ ncalls[u] >= 1
        /\ invoked # {}

\* C15: after some call of the entry point has returned, every call that
\* starts afterwards forwards directly to the bound engine: its line 55 goes
\* on to the indirect call of line 59 without entering init_permute_function
\* (no capability probe), and neither step writes permute_fn.
C15_NoReprobe ==
    [][results # {} =>
          \A t \in Threads :
              /\ (tpc[t] = "w55" /\ tpc'[t] # "w55")
                    => (tpc'[t] = "w59" /\ permute_fn' = permute_fn)
              /\ (tpc[t] = "w59" /\ tpc'[t] # "w59")
                    => (tpc'[t] = "idle" /\ permute_fn' = permute_fn)]_vars

\* a thread's second call, started after its first returned, is at line 59
C15_Witness ==
    \E t \in Threads :
        /\ ncalls[t] = 2 /\ tpc[t] = "w59"
        /\ results # {}
        /\ reg[t] = permute_fn /\ permute_fn # NULL

(***************************************************************************)
(* Property of rotl64 (checked under SpecRotl)                             *)
(***************************************************************************)
\* C16: for every lane value x and every rotation amount n in 0..63,
\* rotl64(x, n) returns x rotated left by n bits (bit b of x is bit
\* (b + n) mod 64 of the result), both for the amounts with a switch case of
\* their own and for the amounts of the default path.
C16_Rotl64 ==
    rot_out # <<>> =>
        /\ rot_n \in RotAmounts
        /\ rot_out[1] = {(b + rot_n) % LaneBits : b \in rot_x}

\* the default path has rotated a lane whose top bit re-enters at the bottom
C16_Witness ==
    /\ rot_out # <<>>
    /\ rot_n \notin DOMAIN rotl64_cases /\ rot_n # 0
    /\ (LaneBits - 1) \in rot_x
    /\ (rot_n - 1) \in rot_out[1]
=============================================================================
